---- MODULE Spec2Model ----
(***************************************************************************)
(* Model of information_access.py: three fetchers (access_json_api,        *)
(* download_and_read_xml, access_csv_with_pandas) and the __main__ driver. *)
(* Every call is a straight-line sequence of steps; a step that raises     *)
(* jumps to the call's `except Exception` handler.                         *)
(***************************************************************************)
EXTENDS Integers, Sequences, FiniteSets, TLC

\* ------------------------------------------------------------------ bounds
MaxCalls == 2          \* calls made by library users in one behaviour
MaxRecords == 4        \* records of a generated JSON "data" list
MaxFields == 6         \* fields of a generated JSON record
MaxRowNodes == 5       \* elements of a generated XML document (row family)
MaxChildren == 6       \* children of the row of a generated XML document
MaxDepth == 2          \* nesting depth of a generated XML document

Threads == {1, 2}

Min(a, b) == IF a < b THEN a ELSE b

\* ------------------------------------------------------------ Python values
\* A decoded JSON value.  t is the Python type, s the characters of a scalar,
\* items the elements of a list (or the values of a dict), keys the keys of a
\* dict (parallel to items).
Scalar(t, s) == [t |-> t, s |-> s, items |-> <<>>, keys |-> <<>>]
PyStr(s) == Scalar("str", s)
PyNum(s) == Scalar("num", s)
PyNone == Scalar("null", <<>>)
PyList(items) == [t |-> "list", s |-> <<>>, items |-> items, keys |-> <<>>]
PyDict(keys, vals) == [t |-> "dict", s |-> <<>>, items |-> vals, keys |-> keys]

DATA == <<"d", "a", "t", "a">>

\* needle in haystack, for two str values (character sequences)
IsSubstring(needle, hay) ==
    \E k \in 0..(Len(hay) - Len(needle)) :
        \A i \in 1..Len(needle) : hay[k + i] = needle[i]

SeqContains(seq, x) == \E i \in 1..Len(seq) : seq[i] = x

\* `"data" in v`: key test on a dict, element test on a list, substring test
\* on a str, TypeError on anything else.
PyContainsData(v) ==
    CASE v.t = "dict" -> IF SeqContains(v.keys, DATA) THEN "True" ELSE "False"
      [] v.t = "list" -> IF \E i \in 1..Len(v.items) :
                               v.items[i].t = "str" /\ v.items[i].s = DATA
                         THEN "True" ELSE "False"
      [] v.t = "str"  -> IF IsSubstring(DATA, v.s) THEN "True" ELSE "False"
      [] OTHER        -> "TypeError"

\* `v["data"]` is defined for a dict only (list and str indices must be ints)
PySubscriptable(v) == v.t = "dict"
PySubscriptData(v) ==
    v.items[CHOOSE i \in 1..Len(v.keys) : v.keys[i] = DATA]

\* iter(v): the elements of a list, the characters of a str, the keys of a dict
PyIterable(v) == v.t \in {"list", "str", "dict"}
PyIter(v) ==
    CASE v.t = "list" -> v.items
      [] v.t = "str"  -> [i \in 1..Len(v.s) |-> PyStr(<<v.s[i]>>)]
      [] v.t = "dict" -> [i \in 1..Len(v.keys) |-> PyStr(v.keys[i])]
      [] OTHER        -> <<>>

\* enumerate(v): pairs (j, value), j from 0
Enumerate(seq) == [i \in 1..Len(seq) |-> <<i - 1, seq[i]>>]


\* --------------------------------------------------- access_json_api, 50-68
JsonSampleLimit == 3
JsonFieldLimit == 5

\* the condition of line 50, evaluated left to right with short-circuit `and`
JsonShapeCond(data) ==
    LET c1 == PyContainsData(data) IN
    IF c1 # "True" THEN c1
    ELSE IF ~PySubscriptable(data) THEN "TypeError"
    ELSE LET v == PySubscriptData(data) IN
         IF v.t = "list" /\ Len(v.items) > 0 THEN "True" ELSE "False"

JsonFieldFilterOffByOne(pairs) ==
    SelectSeq(pairs, LAMBDA p : p[1] <= JsonFieldLimit)

\* lines 60-62: the (j, value) pairs printed for one record
JsonFieldFilter(pairs) ==
    SelectSeq(pairs, LAMBDA p : p[1] < JsonFieldLimit)

\* lines 55-62: `for i in range(sample_size)`; stops at the first record that
\* cannot be enumerated, with what was printed before it
RECURSIVE JsonLoop(_, _, _, _)
JsonLoop(records, i, sample_size, acc) ==
    IF i >= sample_size THEN [raised |-> "none", printed |-> acc]
    ELSE LET record == records[i + 1] IN
         IF ~PyIterable(record) THEN [raised |-> "TypeError", printed |-> acc]
         ELSE JsonLoop(records, i + 1, sample_size,
                       Append(acc, JsonFieldFilter(Enumerate(PyIter(record)))))

\* lines 50-68: which branch runs, what it prints, what it raises
JsonSample(data) ==
    LET c == JsonShapeCond(data) IN
    CASE c = "TypeError" -> [raised |-> "TypeError", branch |-> "none", printed |-> <<>>]
      [] c = "False"     -> [raised |-> "none", branch |-> "preview", printed |-> <<>>]
      [] OTHER ->
            LET records == PySubscriptData(data).items
                sample_size == Min(JsonSampleLimit, Len(records))
                r == JsonLoop(records, 0, sample_size, <<>>)
            IN  [raised |-> r.raised, branch |-> "sample", printed |-> r.printed]

\* ------------------------------------------- download_and_read_xml, 110-135
XmlRowLimit == 3
XmlFieldLimit == 5

ROW == <<"r", "o", "w">>
RBRACE == "}"

\* An XML body is the sequence of its elements in document order, each with
\* its nesting depth, its tag as ElementTree spells it ("{uri}local" for a
\* namespaced name) and its text; complete = FALSE is a body cut short.
XmlBody(complete, nodes) == [complete |-> complete, nodes |-> nodes]

\* ET.parse, line 110: accepts a body with exactly one root element
XmlWellFormed(body) ==
    /\ body.complete
    /\ Len(body.nodes) >= 1
    /\ body.nodes[1].depth = 0
    /\ \A i \in 2..Len(body.nodes) :
          /\ body.nodes[i].depth >= 1
          /\ body.nodes[i].depth <= body.nodes[i - 1].depth + 1

\* the last element of the subtree of element i
SubtreeEnd(nodes, i) ==
    LET after == {j \in (i + 1)..Len(nodes) : nodes[j].depth <= nodes[i].depth}
    IN  IF after = {} THEN Len(nodes)
        ELSE (CHOOSE j \in after : \A k \in after : j <= k) - 1

\* list(element): the direct children of element i, in document order
Children(nodes, i) ==
    SelectSeq([k \in 1..(SubtreeEnd(nodes, i) - i) |-> i + k],
              LAMBDA j : /\ nodes[j].depth = nodes[i].depth + 1
                         /\ \A m \in (i + 1)..(j - 1) : nodes[m].depth > nodes[i].depth)

\* Element.iter(): the element, then each child's iter(), in order
RECURSIVE Iter(_, _)
RECURSIVE IterAll(_, _)
Iter(nodes, i) == <<i>> \o IterAll(nodes, Children(nodes, i))
IterAll(nodes, elems) ==
    IF elems = <<>> THEN <<>>
    ELSE Iter(nodes, Head(elems)) \o IterAll(nodes, Tail(elems))

FindallWithRoot(nodes, root, tag) ==
    SelectSeq(Iter(nodes, root), LAMBDA e : nodes[e].tag = tag)

\* root.findall('.//row'), line 114: the descendants of root (not root itself)
\* whose tag is exactly `tag`
Findall(nodes, root, tag) ==
    SelectSeq(Iter(nodes, root), LAMBDA e : e # root /\ nodes[e].tag = tag)

\* line 129: child.tag.split('}')[-1] if '}' in child.tag else child.tag
StripNamespace(tag) ==
    LET at == {i \in 1..Len(tag) : tag[i] = RBRACE} IN
    IF at = {} THEN tag
    ELSE LET last == CHOOSE i \in at : \A k \in at : k <= i
         IN  SubSeq(tag, last + 1, Len(tag))

\* record[tag] = text on a dict kept as its (key, value) pairs in insertion
\* order: an existing key keeps its place and takes the new value
DictSet(record, key, value) ==
    IF \E i \in 1..Len(record) : record[i][1] = key
    THEN [i \in 1..Len(record) |->
             IF record[i][1] = key THEN <<key, value>> ELSE record[i]]
    ELSE Append(record, <<key, value>>)

FieldAdmittedOneMore(field_count) == field_count <= XmlFieldLimit

\* line 130: `if field_count < 5`
FieldAdmitted(field_count) == field_count < XmlFieldLimit

\* lines 126-133: `for child in row`
RECURSIVE RowLoop(_, _, _, _)
RowLoop(nodes, children, field_count, record) ==
    IF children = <<>> THEN record
    ELSE LET child == nodes[Head(children)]
             tag == StripNamespace(child.tag)
         IN  IF FieldAdmitted(field_count)
             THEN RowLoop(nodes, Tail(children), field_count + 1,
                          DictSet(record, tag, child.text))
             ELSE RowLoop(nodes, Tail(children), field_count, record)

RowSliceOneMore(rows) == SubSeq(rows, 1, Min(XmlRowLimit + 1, Len(rows)))

\* rows[:3], line 121
RowSlice(rows) == SubSeq(rows, 1, Min(XmlRowLimit, Len(rows)))

\* lines 111-135: sample_records for a parsed tree
SampleRecords(nodes) ==
    LET rows == Findall(nodes, 1, ROW)
        first == RowSlice(rows)
    IN  [i \in 1..Len(first) |-> RowLoop(nodes, Children(nodes, first[i]), 0, <<>>)]

\* --------------------------------------- access_csv_with_pandas, 185-202
CsvColumnLimit == 5
CsvHeadLimit == 3

\* A CSV body is its lines, each a sequence of cells; a cell has its text and
\* whether the text reads as a number.
CsvBody(lines) == [lines |-> lines]
Cell(txt, num) == [txt |-> txt, num |-> num]

\* pd.read_csv, line 185: an empty file has no columns to parse, and a line
\* with more cells than the lines before it cannot be tokenized
CsvReadable(body) ==
    /\ Len(body.lines) >= 1
    /\ \A i \in 2..Len(body.lines) : Len(body.lines[i]) <= Len(body.lines[1])

ReadCsv(body) ==
    [columns |-> [j \in 1..Len(body.lines[1]) |-> body.lines[1][j].txt],
     rows    |-> Tail(body.lines)]

\* df.select_dtypes(include=['number']).columns, line 200: the columns whose
\* cells all read as numbers (a missing cell is NaN, which is a number)
NumericCols(df) ==
    SelectSeq([j \in 1..Len(df.columns) |-> j],
              LAMBDA j : /\ df.rows # <<>>
                         /\ \A i \in 1..Len(df.rows) :
                               j > Len(df.rows[i]) \/ df.rows[i][j].num)

\* lines 189-202: what the report prints
CsvReport(df) ==
    [shape   |-> <<Len(df.rows), Len(df.columns)>>,
     columns |-> SubSeq(df.columns, 1, Min(CsvColumnLimit, Len(df.columns))),
     head    |-> SubSeq(df.rows, 1, Min(CsvHeadLimit, Len(df.rows))),
     stats   |-> IF NumericCols(df) # <<>>
                 THEN <<df.columns[Head(NumericCols(df))]>> ELSE <<>>]


\* ------------------------------------------------------------------- state
VARIABLES
    usage,      \* how the functions are called: "driver", "sequential", "concurrent"
    server,     \* per endpoint, the bodies it may answer a GET with
    disk,       \* per temp_file, the file at that path in the working directory
    mainpc,     \* the next statement of the __main__ block
    invoked,    \* the fetchers invoked so far, in order
    ncalls,     \* number of calls started so far
    pc,         \* per thread, the next step of its call ("idle" between calls)
    fn,         \* per thread, the function it runs
    cid,        \* per thread, the number of its call
    status,     \* per thread, response.status_code (0: no response)
    response,   \* per thread, the body of response
    parsed,     \* per thread, data / root / df
    sample,     \* per thread, what the call printed as its sample (sample_records)
    branch,     \* per thread, the branch of line 50 access_json_api took
    ret,        \* per thread, the value the call returned
    exc,        \* per thread, the exception e of the call
    logged,     \* per thread, whether the handler printed its error line
    readFrom,   \* per thread, the call whose bytes the parser read
    results,    \* what the callers received so far, in order of return
    fsFaults    \* whether the file system refused an operation so far

vars == <<usage, server, disk, mainpc, invoked, ncalls, pc, fn, cid, status,
          response, parsed, sample, branch, ret, exc, logged, readFrom,
          results, fsFaults>>

Fetchers == {"json", "xml", "csv"}
FileFetchers == {"xml", "csv"}

\* temp_file, lines 95 and 170: one fixed path per format
TempFile(f) == f

EmptyBody(f) ==
    CASE f = "json" -> [valid |-> FALSE, doc |-> PyNone]
      [] f = "xml"  -> XmlBody(TRUE, <<>>)
      [] OTHER      -> CsvBody(<<>>)

NoFile(f) == [present |-> FALSE, writer |-> 0, bytes |-> EmptyBody(f)]

WriteFileKeepExisting(d, path, c, bytes) ==
    IF d[path].present THEN d
    ELSE [d EXCEPT ![path] = [present |-> TRUE, writer |-> c, bytes |-> bytes]]

\* open(temp_file, 'wb') and f.write(...), lines 104-105 and 179-180: the file
\* is created or truncated, then holds the bytes of call c
WriteFile(d, path, c, bytes) ==
    [d EXCEPT ![path] = [present |-> TRUE, writer |-> c, bytes |-> bytes]]

\* os.remove(temp_file), lines 139 and 206
RemoveFile(d, path) == [d EXCEPT ![path] = NoFile(path)]

ExceptionKinds ==
    {"ConnectionError", "HTTPError", "JSONDecodeError", "OSError",
     "FileNotFoundError", "ParseError", "TypeError", "UnicodeEncodeError"}

CaughtRequestsOnly(e) == e \in {"ConnectionError", "HTTPError"}

\* `except Exception as e`, lines 70, 144, 211
Caught(e) == e \in ExceptionKinds

\* a step of thread t raises e: control goes to the handler, or leaves the
\* function when the handler does not catch e
Raise(t, e) ==
    /\ pc' = [pc EXCEPT ![t] = IF Caught(e) THEN "except" ELSE "escaped"]
    /\ exc' = [exc EXCEPT ![t] = e]

None == <<"None">>
Value(v) == <<"value", v>>
Pending == <<"pending">>

\* the first statements of a call: fresh locals
Start(t, f) ==
    /\ pc[t] = "idle"
    /\ pc' = [pc EXCEPT ![t] = "get"]
    /\ fn' = [fn EXCEPT ![t] = f]
    /\ ncalls' = ncalls + 1
    /\ cid' = [cid EXCEPT ![t] = ncalls + 1]
    /\ invoked' = Append(invoked, f)
    /\ status' = [status EXCEPT ![t] = 0]
    /\ response' = [response EXCEPT ![t] = <<>>]
    /\ parsed' = [parsed EXCEPT ![t] = <<>>]
    /\ sample' = [sample EXCEPT ![t] = <<>>]
    /\ branch' = [branch EXCEPT ![t] = "none"]
    /\ ret' = [ret EXCEPT ![t] = Pending]
    /\ exc' = [exc EXCEPT ![t] = "none"]
    /\ logged' = [logged EXCEPT ![t] = FALSE]
    /\ readFrom' = [readFrom EXCEPT ![t] = 0]
    /\ UNCHANGED <<usage, server, disk, results, fsFaults>>

\* a library user calls fetcher f on thread t
Invoke(t, f) ==
    /\ usage \in {"sequential", "concurrent"}
    /\ ncalls < MaxCalls
    /\ usage = "sequential" => \A u \in Threads : pc[u] = "idle"
    /\ Start(t, f)
    /\ UNCHANGED mainpc

\* a single call of f, the only call of the behaviour
InvokeOnce(t, f) ==
    /\ usage = "sequential"
    /\ ncalls = 0
    /\ Start(t, f)
    /\ UNCHANGED mainpc

NextStatement(m) ==
    CASE m = "json" -> "xml"
      [] m = "xml"  -> "csv"
      [] m = "csv"  -> "completed"
      [] OTHER      -> "done"

\* lines 223, 228, 233: the driver calls the next fetcher
MainCall ==
    /\ usage = "driver"
    /\ mainpc \in Fetchers
    /\ Start(1, mainpc)
    /\ mainpc' = NextStatement(mainpc)

\* line 235
MainCompleted ==
    /\ usage = "driver"
    /\ mainpc = "completed"
    /\ pc[1] = "idle"
    /\ mainpc' = "done"
    /\ UNCHANGED <<usage, server, disk, invoked, ncalls, pc, fn, cid, status,
                   response, parsed, sample, branch, ret, exc, logged, readFrom,
                   results, fsFaults>>

GetStatuses == {0, 200, 404, 500}

\* requests.get and raise_for_status, lines 42-43, 100-101, 175-176
Get(t) ==
    /\ pc[t] = "get"
    /\ \E code \in GetStatuses :
          /\ status' = [status EXCEPT ![t] = code]
          /\ IF code = 0 THEN Raise(t, "ConnectionError") /\ UNCHANGED response
             ELSE IF code # 200 THEN Raise(t, "HTTPError") /\ UNCHANGED response
             ELSE /\ \E b \in server[fn[t]] : response' = [response EXCEPT ![t] = b]
                  /\ pc' = [pc EXCEPT ![t] = IF fn[t] = "json" THEN "decode" ELSE "write"]
                  /\ UNCHANGED exc
    /\ UNCHANGED <<usage, server, disk, mainpc, invoked, ncalls, fn, cid,
                   parsed, sample, branch, ret, logged, readFrom, results, fsFaults>>

\* response.json(), line 44
JsonDecode(t) ==
    /\ pc[t] = "decode"
    /\ IF response[t].valid
       THEN /\ parsed' = [parsed EXCEPT ![t] = response[t].doc]
            /\ pc' = [pc EXCEPT ![t] = "sample"]
            /\ UNCHANGED exc
       ELSE Raise(t, "JSONDecodeError") /\ UNCHANGED parsed
    /\ UNCHANGED <<usage, server, disk, mainpc, invoked, ncalls, fn, cid, status,
                   response, sample, branch, ret, logged, readFrom, results, fsFaults>>

\* lines 47-68: the sample or the preview is printed and data returned; a
\* print may fail on a character the console cannot encode
JsonSampleStep(t) ==
    /\ pc[t] = "sample"
    /\ fn[t] = "json"
    /\ \E printFails \in BOOLEAN :
          LET r == JsonSample(parsed[t]) IN
          IF printFails
          THEN Raise(t, "UnicodeEncodeError") /\ UNCHANGED <<sample, branch, ret, results>>
          ELSE /\ sample' = [sample EXCEPT ![t] = r.printed]
               /\ branch' = [branch EXCEPT ![t] = r.branch]
               /\ IF r.raised # "none"
                  THEN Raise(t, r.raised) /\ UNCHANGED <<ret, results>>
                  ELSE /\ ret' = [ret EXCEPT ![t] = Value(parsed[t])]
                       /\ results' = Append(results, <<fn[t], "value">>)
                       /\ pc' = [pc EXCEPT ![t] = "idle"]
                       /\ UNCHANGED exc
    /\ UNCHANGED <<usage, server, disk, mainpc, invoked, ncalls, fn, cid, status,
                   response, parsed, logged, readFrom, fsFaults>>

\* lines 104-105 and 179-180: open may fail (nothing changes), the write may
\* fail after open created or truncated the file
Write(t) ==
    /\ pc[t] = "write"
    /\ \E outcome \in {"ok", "open fails", "write fails"} :
          CASE outcome = "ok" ->
                  /\ disk' = WriteFile(disk, TempFile(fn[t]), cid[t], response[t])
                  /\ pc' = [pc EXCEPT ![t] = "parse"]
                  /\ UNCHANGED <<exc, fsFaults>>
            [] outcome = "open fails" ->
                  Raise(t, "OSError") /\ fsFaults' = TRUE /\ UNCHANGED disk
            [] OTHER ->
                  /\ disk' = WriteFile(disk, TempFile(fn[t]), cid[t], EmptyBody(fn[t]))
                  /\ fsFaults' = TRUE
                  /\ Raise(t, "OSError")
    /\ UNCHANGED <<usage, server, mainpc, invoked, ncalls, fn, cid, status,
                   response, parsed, sample, branch, ret, logged, readFrom, results>>

Readable(f, bytes) == IF f = "xml" THEN XmlWellFormed(bytes) ELSE CsvReadable(bytes)
Load(f, bytes) == IF f = "xml" THEN bytes.nodes ELSE ReadCsv(bytes)

\* ET.parse(temp_file) / tree.getroot(), lines 110-111; pd.read_csv(temp_file),
\* line 185: reads whatever is at the path now
Parse(t) ==
    /\ pc[t] = "parse"
    /\ LET file == disk[TempFile(fn[t])] IN
       IF ~file.present
       THEN Raise(t, "FileNotFoundError") /\ UNCHANGED <<parsed, readFrom>>
       ELSE /\ readFrom' = [readFrom EXCEPT ![t] = file.writer]
            /\ IF Readable(fn[t], file.bytes)
               THEN /\ parsed' = [parsed EXCEPT ![t] = Load(fn[t], file.bytes)]
                    /\ pc' = [pc EXCEPT ![t] = "sample"]
                    /\ UNCHANGED exc
               ELSE Raise(t, "ParseError") /\ UNCHANGED parsed
    /\ UNCHANGED <<usage, server, disk, mainpc, invoked, ncalls, fn, cid, status,
                   response, sample, branch, ret, logged, results, fsFaults>>

\* lines 114-135 (XML) and 188-202 (CSV): the sample is built and printed; a
\* print may fail on a character the console cannot encode
Sample(t) ==
    /\ pc[t] = "sample"
    /\ fn[t] \in FileFetchers
    /\ \E printFails \in BOOLEAN :
          IF printFails
          THEN Raise(t, "UnicodeEncodeError") /\ UNCHANGED sample
          ELSE /\ sample' = [sample EXCEPT ![t] =
                                IF fn[t] = "xml" THEN SampleRecords(parsed[t])
                                ELSE CsvReport(parsed[t])]
               /\ pc' = [pc EXCEPT ![t] = "exists"]
               /\ UNCHANGED exc
    /\ UNCHANGED <<usage, server, disk, mainpc, invoked, ncalls, fn, cid, status,
                   response, parsed, branch, ret, logged, readFrom, results, fsFaults>>

\* what the call returns: sample_records (line 142), df (line 209)
Result(t) == IF fn[t] = "xml" THEN Value(sample[t]) ELSE Value(parsed[t])

\* `if os.path.exists(temp_file)`, lines 138 and 205, and the return when the
\* file is not there
Exists(t) ==
    /\ pc[t] = "exists"
    /\ IF disk[TempFile(fn[t])].present
       THEN pc' = [pc EXCEPT ![t] = "remove"] /\ UNCHANGED <<ret, results>>
       ELSE /\ pc' = [pc EXCEPT ![t] = "idle"]
            /\ ret' = [ret EXCEPT ![t] = Result(t)]
            /\ results' = Append(results, <<fn[t], "value">>)
    /\ UNCHANGED <<usage, server, disk, mainpc, invoked, ncalls, fn, cid, status,
                   response, parsed, sample, branch, exc, logged, readFrom, fsFaults>>

\* os.remove(temp_file) and the return, lines 139-142 and 206-209: the file
\* may be gone since the test, and the removal may be refused
Remove(t) ==
    /\ pc[t] = "remove"
    /\ IF ~disk[TempFile(fn[t])].present
       THEN Raise(t, "FileNotFoundError") /\ UNCHANGED <<disk, ret, results, fsFaults>>
       ELSE \E refused \in BOOLEAN :
               IF refused
               THEN /\ Raise(t, "OSError")
                    /\ fsFaults' = TRUE
                    /\ UNCHANGED <<disk, ret, results>>
               ELSE /\ disk' = RemoveFile(disk, TempFile(fn[t]))
                    /\ ret' = [ret EXCEPT ![t] = Result(t)]
                    /\ results' = Append(results, <<fn[t], "value">>)
                    /\ pc' = [pc EXCEPT ![t] = "idle"]
                    /\ UNCHANGED <<exc, fsFaults>>
    /\ UNCHANGED <<usage, server, mainpc, invoked, ncalls, fn, cid, status,
                   response, parsed, sample, branch, logged, readFrom>>

\* the handler, lines 70-72, 144-146, 211-213: print the error, return None
Except(t) ==
    /\ pc[t] = "except"
    /\ logged' = [logged EXCEPT ![t] = TRUE]
    /\ ret' = [ret EXCEPT ![t] = None]
    /\ results' = Append(results, <<fn[t], "None">>)
    /\ pc' = [pc EXCEPT ![t] = "idle"]
    /\ UNCHANGED <<usage, server, disk, mainpc, invoked, ncalls, fn, cid, status,
                   response, parsed, sample, branch, exc, readFrom, fsFaults>>

Step(t) ==
    \/ Get(t) \/ JsonDecode(t) \/ JsonSampleStep(t) \/ Write(t) \/ Parse(t)
    \/ Sample(t) \/ Exists(t) \/ Remove(t) \/ Except(t)


\* ------------------------------------------------------------------ inputs
Digits == <<"0", "1", "2", "3", "4", "5", "6", "7", "8", "9">>
META == <<"m", "e", "t", "a">>

\* the Socrata shape: {"meta": ..., "data": [...]}
Socrata(records) == PyDict(<<META, DATA>>, <<PyStr(<<"v">>), PyList(records)>>)

\* field j of record i, a str that names its place
FieldAt(i, j) == PyStr(<<Digits[i + 1], Digits[j + 1]>>)

\* a "data" list of n records, record i with lens[i] fields
JsonTable(n, lens) ==
    Socrata([i \in 1..n |-> PyList([j \in 1..lens[i] |-> FieldAt(i, j)])])

ExampleDoc ==
    PyDict(<<DATA>>,
           <<PyList(<<PyList(<<PyStr(<<"a">>), PyStr(<<"1">>), PyStr(<<"x">>),
                               PyStr(<<"y">>), PyStr(<<"z">>),
                               PyStr(<<"e", "x", "t", "r", "a">>)>>),
                      PyList(<<PyStr(<<"b">>), PyStr(<<"2">>)>>)>>)>>)

\* documents of every other top-level shape
JsonShapes ==
    {ExampleDoc,
     PyDict(<<META>>, <<PyStr(<<"v">>)>>),
     PyDict(<<>>, <<>>),
     Socrata(<<>>),
     PyDict(<<DATA>>, <<PyStr(<<"a">>)>>),
     PyDict(<<DATA>>, <<PyNum(<<"5">>)>>),
     PyDict(<<DATA>>, <<PyNone>>),
     PyDict(<<DATA>>, <<PyDict(<<META>>, <<PyNum(<<"1">>)>>)>>),
     PyList(<<>>),
     PyList(<<PyStr(DATA)>>),
     PyList(<<PyNum(<<"5">>)>>),
     PyList(<<PyList(<<PyStr(<<"a">>)>>)>>),
     PyStr(<<"a">>),
     PyStr(DATA),
     PyStr(META \o DATA),
     PyNum(<<"5">>),
     PyNone,
     Socrata(<<PyNum(<<"5">>)>>),
     Socrata(<<PyNone>>),
     Socrata(<<PyStr(<<"a", "b">>)>>),
     Socrata(<<PyDict(<<META>>, <<PyNum(<<"1">>)>>)>>),
     Socrata(<<PyList(<<PyStr(<<"a">>)>>), PyNum(<<"5">>)>>),
     Socrata(<<PyList(<<PyList(<<PyStr(<<"a">>)>>), PyNum(<<"5">>), PyNone>>)>>)}

JsonText(doc) == [valid |-> TRUE, doc |-> doc]

NSPREFIX == <<"{", "u", "}">>
TagA == <<"a">>
TagB == <<"b">>
RowTags == {ROW, NSPREFIX \o ROW, TagA}
FieldTags == {TagA, NSPREFIX \o TagA, ROW, TagB}

Element(depth, tag, text) == [depth |-> depth, tag |-> tag, text |-> text]

\* the depths of n elements in document order: one root, every other element
\* inside it, at most one level below the element before it
DepthSeqs(n) ==
    {d \in [1..n -> 0..MaxDepth] :
        /\ d[1] = 0
        /\ \A i \in 2..n : d[i] >= 1 /\ d[i] <= d[i - 1] + 1}

\* the document of n elements with depths d and tags `tags`; the text of an
\* element names its place
XmlRowDoc(n, d, tags) ==
    XmlBody(TRUE, [i \in 1..n |-> Element(d[i], tags[i], i)])

\* a root holding one row with k children tagged `tags`
XmlFieldDoc(k, tags) ==
    XmlBody(TRUE, <<Element(0, TagA, 1), Element(1, ROW, 2)>>
                  \o [i \in 1..k |-> Element(2, tags[i], i + 2)])

GoodXml ==
    XmlBody(TRUE, <<Element(0, TagA, 1), Element(1, ROW, 2),
                    Element(2, TagA, 3), Element(2, TagB, 4)>>)

\* bodies ET.parse rejects: cut short, empty, two root elements
XmlMalformed ==
    {XmlBody(FALSE, GoodXml.nodes),
     EmptyBody("xml"),
     XmlBody(TRUE, <<Element(0, TagA, 1), Element(0, ROW, 2)>>)}

GoodCsv ==
    CsvBody(<<<<Cell("VIN", FALSE), Cell("Year", FALSE)>>,
              <<Cell("5YJ3", FALSE), Cell("2020", TRUE)>>,
              <<Cell("1N4A", FALSE), Cell("2019", TRUE)>>>>)
RaggedCsv ==
    CsvBody(<<<<Cell("VIN", FALSE)>>,
              <<Cell("5YJ3", FALSE)>>,
              <<Cell("1N4A", FALSE), Cell("2019", TRUE)>>>>)

\* what the three endpoints answer with in the runs of whole calls
SmallServer ==
    [json |-> {JsonText(ExampleDoc), EmptyBody("json")},
     xml  |-> {GoodXml, XmlBody(FALSE, GoodXml.nodes)},
     csv  |-> {GoodCsv, RaggedCsv}]

\* ---------------------------------------------------------- specifications
InitLocals ==
    /\ mainpc = "json"
    /\ invoked = <<>>
    /\ ncalls = 0
    /\ pc = [t \in Threads |-> "idle"]
    /\ fn = [t \in Threads |-> "none"]
    /\ cid = [t \in Threads |-> 0]
    /\ status = [t \in Threads |-> 0]
    /\ response = [t \in Threads |-> <<>>]
    /\ parsed = [t \in Threads |-> <<>>]
    /\ sample = [t \in Threads |-> <<>>]
    /\ branch = [t \in Threads |-> "none"]
    /\ ret = [t \in Threads |-> Pending]
    /\ exc = [t \in Threads |-> "none"]
    /\ logged = [t \in Threads |-> FALSE]
    /\ readFrom = [t \in Threads |-> 0]
    /\ results = <<>>
    /\ fsFaults = FALSE

EmptyDisk == [f \in FileFetchers |-> NoFile(f)]

\* the functions used as a library, one call at a time or from two threads
Init ==
    /\ usage \in {"sequential", "concurrent"}
    /\ server = SmallServer
    /\ disk = EmptyDisk
    /\ InitLocals

Next ==
    \E t \in Threads :
        \/ \E f \in Fetchers : Invoke(t, f)
        \/ Step(t)

Spec == Init /\ [][Next]_vars

\* what an earlier run may have left at the path of f
Leftovers(f) ==
    {NoFile(f)} \cup {[present |-> TRUE, writer |-> 0, bytes |-> b] : b \in SmallServer[f]}

NextDriver == MainCall \/ MainCompleted \/ Step(1)

\* python information_access.py, in a directory where an earlier run may have
\* left its files
InitDriver ==
    /\ usage = "driver"
    /\ server = SmallServer
    /\ \E x \in Leftovers("xml"), c \in Leftovers("csv") :
          disk = [f \in FileFetchers |-> IF f = "xml" THEN x ELSE c]
    /\ InitLocals


\* the script runs on: a call that has started takes its next step
DriverSpec == InitDriver /\ [][NextDriver]_vars /\ WF_vars(NextDriver)

InitJson ==
    /\ usage = "sequential"
    /\ \/ \E n \in 1..MaxRecords : \E lens \in [1..n -> 0..MaxFields] :
             server = [SmallServer EXCEPT !.json = {JsonText(JsonTable(n, lens))}]
       \/ \E d \in JsonShapes :
             server = [SmallServer EXCEPT !.json = {JsonText(d)}]
       \/ server = [SmallServer EXCEPT !.json = {EmptyBody("json")}]
    /\ disk = EmptyDisk
    /\ InitLocals

NextJson ==
    \/ InvokeOnce(1, "json")
    \/ Get(1) \/ JsonDecode(1) \/ JsonSampleStep(1) \/ Except(1)

\* one call of access_json_api on each generated or listed body
SpecJson == InitJson /\ [][NextJson]_vars

InitXml ==
    /\ usage = "sequential"
    /\ \/ \E n \in 1..MaxRowNodes : \E d \in DepthSeqs(n), tags \in [1..n -> RowTags] :
             server = [SmallServer EXCEPT !.xml = {XmlRowDoc(n, d, tags)}]
       \/ \E k \in 0..MaxChildren : \E tags \in [1..k -> FieldTags] :
             server = [SmallServer EXCEPT !.xml = {XmlFieldDoc(k, tags)}]
       \/ \E b \in XmlMalformed :
             server = [SmallServer EXCEPT !.xml = {b}]
    /\ disk = EmptyDisk
    /\ InitLocals

NextXml ==
    \/ InvokeOnce(1, "xml")
    \/ Get(1) \/ Write(1) \/ Parse(1) \/ Sample(1) \/ Exists(1) \/ Remove(1)
    \/ Except(1)

\* one call of download_and_read_xml on each generated or listed body
SpecXml == InitXml /\ [][NextXml]_vars


\* ------------------------------------------------------------------ claims
\* thread t's call has returned
Returned(t) == pc[t] = "idle" /\ cid[t] > 0

\* thread t's call has just returned in one-call-at-a-time use: it is the
\* latest call and nothing else is running
LastReturned(t) ==
    /\ usage = "sequential"
    /\ Returned(t)
    /\ cid[t] = ncalls
    /\ \A u \in Threads : pc[u] = "idle"

\* t ran access_json_api and the body decoded
JsonDecoded(t) ==
    /\ fn[t] = "json"
    /\ Returned(t)
    /\ status[t] = 200
    /\ exc[t] # "JSONDecodeError"

\* {"data": [[...], ...]}: an object whose "data" is a non-empty list of lists
IsListOfLists(d) ==
    /\ d.t = "dict"
    /\ SeqContains(d.keys, DATA)
    /\ LET v == PySubscriptData(d) IN
          /\ v.t = "list"
          /\ Len(v.items) > 0
          /\ \A i \in 1..Len(v.items) : v.items[i].t = "list"

RecordsOf(d) == PySubscriptData(d).items

ExpectedJsonSample(d) ==
    [i \in 1..Min(3, Len(RecordsOf(d))) |->
        [j \in 1..Min(5, Len(RecordsOf(d)[i].items)) |->
            <<j - 1, RecordsOf(d)[i].items[j]>>]]

ExampleSample ==
    << << <<0, PyStr(<<"a">>)>>, <<1, PyStr(<<"1">>)>>, <<2, PyStr(<<"x">>)>>,
          <<3, PyStr(<<"y">>)>>, <<4, PyStr(<<"z">>)>> >>,
       << <<0, PyStr(<<"b">>)>>, <<1, PyStr(<<"2">>)>> >> >>

\* C4: for a decoded document {"data": non-empty list of lists}, a call of
\* access_json_api whose prints succeed takes the sample branch, raises
\* nothing and prints exactly the first min(3, len(data)) records, each as
\* the (index, value) pairs of its first min(5, len(record)) fields, in the
\* original order; the example of the specification gives its stated sample.
C4_SampleIsFirstRecordsAndFields ==
    \A t \in Threads :
        (JsonDecoded(t) /\ IsListOfLists(parsed[t]) /\ exc[t] # "UnicodeEncodeError") =>
            /\ exc[t] = "none"
            /\ branch[t] = "sample"
            /\ ret[t] = Value(parsed[t])
            /\ sample[t] = ExpectedJsonSample(parsed[t])
            /\ parsed[t] = ExampleDoc => sample[t] = ExampleSample

C4_Witness ==
    \E t \in Threads :
        /\ JsonDecoded(t) /\ IsListOfLists(parsed[t]) /\ exc[t] = "none"
        /\ Len(RecordsOf(parsed[t])) > 3
        /\ \E i \in 1..3 : Len(RecordsOf(parsed[t])[i].items) > 5
        /\ \E i \in 1..3 : Len(RecordsOf(parsed[t])[i].items) \in 1..4

\* t ran download_and_read_xml and returned its sample
XmlReturned(t) == fn[t] = "xml" /\ Returned(t) /\ exc[t] = "none"

\* the element that encloses element j: the nearest element before j that is
\* one level up
Parent(nodes, j) ==
    CHOOSE i \in 1..(j - 1) :
        /\ nodes[i].depth = nodes[j].depth - 1
        /\ \A k \in (i + 1)..(j - 1) : nodes[k].depth # nodes[j].depth - 1

Sorted(S) ==
    [k \in 1..Cardinality(S) |-> CHOOSE x \in S : Cardinality({y \in S : y < x}) = k - 1]

\* the direct children of element r, in document order
KidsOf(nodes, r) == Sorted({j \in 2..Len(nodes) : Parent(nodes, j) = r})

\* the elements below the root whose tag is exactly row, in document order
RowsBelowRoot(nodes) == Sorted({i \in 2..Len(nodes) : nodes[i].tag = ROW})

NoBrace(key) == \A i \in 1..Len(key) : key[i] # RBRACE

\* key is tag without its {uri} prefix
IsBareOf(key, tag) ==
    /\ NoBrace(key)
    /\ Len(key) <= Len(tag)
    /\ \A i \in 1..Len(key) : key[i] = tag[Len(tag) - Len(key) + i]
    /\ Len(key) = Len(tag) \/ tag[Len(tag) - Len(key)] = RBRACE

\* C5 as claimed: the list has min(3, N) records, N the number of elements
\* named row anywhere in the document, and no key contains '}'.
C5_CountsEveryRowElement ==
    \A t \in Threads :
        XmlReturned(t) =>
            /\ Len(sample[t]) =
                  Min(3, Cardinality({i \in 1..Len(parsed[t]) : parsed[t][i].tag = ROW}))
            /\ \A k \in 1..Len(sample[t]) : \A e \in 1..Len(sample[t][k]) :
                  NoBrace(sample[t][k][e][1])

\* C5 amended: the list returned has min(3, N) records, N the number of
\* elements below the root, at any depth, whose tag is exactly row (the root
\* itself is not counted, nor is a row in a namespace); record k is taken from
\* the k-th such element in document order; every key is a child's tag without
\* its {uri} prefix, and none contains '}'.
C5_CountsRowsBelowRoot ==
    \A t \in Threads :
        XmlReturned(t) =>
            LET nodes == parsed[t]
                rows == RowsBelowRoot(nodes)
            IN  /\ ret[t] = Value(sample[t])
                /\ Len(sample[t]) = Min(3, Len(rows))
                /\ \A k \in 1..Len(sample[t]) :
                      /\ KidsOf(nodes, rows[k]) # <<>> => sample[t][k] # <<>>
                      /\ \A e \in 1..Len(sample[t][k]) :
                            /\ NoBrace(sample[t][k][e][1])
                            /\ \E m \in 1..Len(KidsOf(nodes, rows[k])) :
                                  LET child == nodes[KidsOf(nodes, rows[k])[m]] IN
                                  /\ IsBareOf(sample[t][k][e][1], child.tag)
                                  /\ sample[t][k][e][2] = child.text

C5_Witness ==
    \E t \in Threads :
        /\ XmlReturned(t)
        /\ Len(RowsBelowRoot(parsed[t])) > 3
        /\ \E i, j \in 1..Len(RowsBelowRoot(parsed[t])) :
              parsed[t][RowsBelowRoot(parsed[t])[i]].depth #
                  parsed[t][RowsBelowRoot(parsed[t])[j]].depth
        /\ \E k \in 1..Len(sample[t]) :
              \E m \in 1..Len(KidsOf(parsed[t], RowsBelowRoot(parsed[t])[k])) :
                  ~NoBrace(parsed[t][KidsOf(parsed[t], RowsBelowRoot(parsed[t])[k])[m]].tag)

\* the first min(5, c) children of the row of record k
FirstKids(nodes, k) ==
    LET kids == KidsOf(nodes, RowsBelowRoot(nodes)[k])
    IN  SubSeq(kids, 1, Min(5, Len(kids)))

\* C9 as claimed: record k has one entry per child among the first min(5, c)
\* children of its row, in document order, also when tags repeat.
C9_OneEntryPerChild ==
    \A t \in Threads :
        XmlReturned(t) =>
            \A k \in 1..Len(sample[t]) :
                LET first == FirstKids(parsed[t], k) IN
                /\ Len(sample[t][k]) = Len(first)
                /\ \A m \in 1..Len(first) :
                      /\ IsBareOf(sample[t][k][m][1], parsed[t][first[m]].tag)
                      /\ sample[t][k][m][2] = parsed[t][first[m]].text

\* C9 amended: record k holds one entry per distinct bare tag among the first
\* min(5, c) direct children of its row: the keys are distinct, stand in the
\* order in which the tags first occur, and each maps to the text of the last
\* of those children with that tag; nothing comes from the sixth child onward;
\* the record has min(5, c) entries exactly when those tags are all different.
C9_OneEntryPerDistinctTag ==
    \A t \in Threads :
        XmlReturned(t) =>
            \A k \in 1..Len(sample[t]) :
                LET nodes == parsed[t]
                    first == FirstKids(nodes, k)
                    rec == sample[t][k]
                    Has(e, m) == IsBareOf(rec[e][1], nodes[first[m]].tag)
                    FirstAt(e) == CHOOSE m \in 1..Len(first) :
                                      Has(e, m) /\ \A n \in 1..(m - 1) : ~Has(e, n)
                IN  /\ \A m \in 1..Len(first) : \E e \in 1..Len(rec) : Has(e, m)
                    /\ \A e \in 1..Len(rec) :
                          \E m \in 1..Len(first) :
                              /\ Has(e, m)
                              /\ rec[e][2] = nodes[first[m]].text
                              /\ \A n \in (m + 1)..Len(first) : ~Has(e, n)
                    /\ \A e1, e2 \in 1..Len(rec) :
                          e1 < e2 => rec[e1][1] # rec[e2][1] /\ FirstAt(e1) < FirstAt(e2)
                    /\ Len(rec) = Len(first) <=>
                          \A m, n \in 1..Len(first) :
                              m # n => ~\E e \in 1..Len(rec) : Has(e, m) /\ Has(e, n)

C9_Witness ==
    \E t \in Threads :
        /\ XmlReturned(t)
        /\ \E k \in 1..Len(sample[t]) :
              /\ Len(KidsOf(parsed[t], RowsBelowRoot(parsed[t])[k])) > 5
              /\ Len(sample[t][k]) \in 2..4
              /\ \E m \in 1..5 :
                    parsed[t][FirstKids(parsed[t], k)[m]].tag = ROW


\* C1: in the XML and CSV fetchers, when the body was written and parsing it
\* fails, the call logs the error, returns None, and the temporary file is
\* not on disk when the call returns (no file-system operation was refused).
C1_ParseFailureCleansUp ==
    \A t \in Threads :
        (LastReturned(t) /\ fn[t] \in FileFetchers /\ exc[t] = "ParseError" /\ ~fsFaults) =>
            /\ logged[t]
            /\ ret[t] = None
            /\ ~disk[TempFile(fn[t])].present

\* C2: whatever calls came before, a call whose GET answers 404 returns None
\* and leaves no temporary file of its fetcher on disk when it returns (no
\* file-system operation was refused).
C2_NotFoundLeavesNoFile ==
    \A t \in Threads :
        (LastReturned(t) /\ status[t] = 404 /\ ~fsFaults) =>
            /\ ret[t] = None
            /\ fn[t] \in FileFetchers => ~disk[TempFile(fn[t])].present

\* C3: after the second of two successive calls of the same fetcher returns,
\* no temporary file of that fetcher is on disk (no file-system operation was
\* refused).
C3_SecondCallLeavesNoFile ==
    \A t \in Threads :
        (/\ LastReturned(t)
         /\ ncalls >= 2
         /\ invoked[ncalls] = invoked[ncalls - 1]
         /\ fn[t] \in FileFetchers
         /\ ~fsFaults) =>
            ~disk[TempFile(fn[t])].present

\* C7: in access_csv_with_pandas, once the frame is loaded, the temporary
\* file is not left on disk because a reporting step raised.
C7_ReportFailureCleansUp ==
    \A t \in Threads :
        (/\ LastReturned(t)
         /\ fn[t] = "csv"
         /\ exc[t] = "UnicodeEncodeError"
         /\ ~fsFaults) =>
            ~disk[TempFile("csv")].present

\* the expected shape: an object whose "data" is a non-empty list
ShapeMatches(d) ==
    /\ d.t = "dict"
    /\ SeqContains(d.keys, DATA)
    /\ PySubscriptData(d).t = "list"
    /\ Len(PySubscriptData(d).items) > 0

\* C8: access_json_api returns the decoded document for every body that
\* decodes, whatever its shape, taking the preview branch when the shape does
\* not match (no print failed).
C8_DecodedDocumentIsReturned ==
    \A t \in Threads :
        (JsonDecoded(t) /\ exc[t] # "UnicodeEncodeError") =>
            /\ ret[t] = Value(parsed[t])
            /\ branch[t] = IF ShapeMatches(parsed[t]) THEN "sample" ELSE "preview"

\* the place of a step in the straight line of a call
Rank(p) ==
    CASE p = "get" -> 1
      [] p \in {"decode", "write"} -> 2
      [] p = "parse" -> 3
      [] p = "sample" -> 4
      [] p = "exists" -> 5
      [] p = "remove" -> 6
      [] p = "except" -> 7
      [] OTHER -> 8

C6_NoErrorEscapes ==
    /\ \A t \in Threads : pc[t] # "escaped"
    /\ \A t \in Threads :
          (Returned(t) /\ exc[t] # "none") => logged[t] /\ ret[t] = None
    /\ \A t \in Threads :
          (Returned(t) /\ exc[t] = "none") => ~logged[t] /\ ret[t] # None
    /\ \A i \in 1..Len(results) : results[i][1] = invoked[i]
    /\ mainpc = "done" =>
          /\ invoked = <<"json", "xml", "csv">>
          /\ Len(results) = 3

C6_NoStepBack ==
    \A t \in Threads :
        cid'[t] = cid[t] => Rank(pc'[t]) >= Rank(pc[t])

\* C6: no error escapes a fetcher: whichever step raises, the call goes to its
\* handler, logs, and returns None, never going back to an earlier step; the
\* driver calls JSON, XML, CSV in that order, each once, and reaches its final
\* line whatever the calls returned.
C6_DriverAlwaysCompletes ==
    /\ []C6_NoErrorEscapes
    /\ [][C6_NoStepBack]_vars
    /\ <>(mainpc = "done")

C6_Witness ==
    /\ mainpc = "done"
    /\ results = << <<"json", "None">>, <<"xml", "None">>, <<"csv", "None">> >>
    /\ exc[1] = "UnicodeEncodeError"

\* C10: in one-call-at-a-time use a call parses only the bytes it wrote itself
\* and never finds its file gone; with two calls of one fetcher in flight the
\* witness below is reached: one call parses the other's bytes and the other
\* finds the file deleted.
C10_NoInterferenceWhenSequential ==
    usage = "sequential" =>
        \A t \in Threads :
            /\ readFrom[t] \in {0, cid[t]}
            /\ exc[t] # "FileNotFoundError"

C10_Witness ==
    /\ usage = "concurrent"
    /\ \E t, u \in Threads :
          /\ t # u
          /\ fn[t] = fn[u]
          /\ fn[t] \in FileFetchers
          /\ readFrom[t] = cid[u]
          /\ exc[u] = "FileNotFoundError"

====
